---------------------------- MODULE Spec2Model ----------------------------
(***************************************************************************)
(* A model of tfsemb_main.py: the command line run of main(), from the     *)
(* selection of the tokenizer and model to the written per-token table.    *)
(*                                                                         *)
(* Tensors are sequences: a batch is a sequence of windows, a model output *)
(* is a sequence (one per window of the batch) of sequences (one row per   *)
(* position).  A row of a model output is the tuple <<kind, k, p>>: the    *)
(* output of the pretrained model for window k of the conversation         *)
(* (counted from 0) at position p of that window (counted from 0).         *)
(* Probabilities computed from a logit row keep the row's k and p.         *)
(* None (python) is the empty tuple, the NaN row is <<"nan">>.             *)
(***************************************************************************)
EXTENDS Integers, Sequences, FiniteSets, TLC

VARIABLES
    pc,                 \* the statement of main() that runs next
    args,               \* the argparse namespace threaded through the run
    directory,          \* the number of entries of the subject's data directory
    error,              \* <<>>, or <<exception, line>> of the uncaught failure
    df,                 \* the labels table, then the per-token table
    columns,            \* the columns of df: pairs <<name, dtype>>
    pending,            \* conversations the loop of line 258 has yet to visit
    token_list,         \* line 259
    windows,            \* line 261
    batch_num,          \* line 274
    concat_output,      \* line 272
    concat_logits,      \* line 273
    final_embeddings,   \* line 254
    final_top1_word,    \* line 255
    final_top1_prob,    \* line 256
    final_true_y_prob,  \* line 257
    output              \* the records pickled to args.output_file, <<>> before

vars == <<pc, args, directory, error, df, columns, pending, token_list, windows, batch_num,
          concat_output, concat_logits, final_embeddings, final_top1_word,
          final_top1_prob, final_true_y_prob, output>>

conv == <<pending, token_list, windows, batch_num, concat_output, concat_logits>>
finals == <<final_embeddings, final_top1_word, final_top1_prob, final_true_y_prob>>

---------------------------------------------------------------------------
(* Bounds of the model *)

\* The longest labels table (words) load_pickle reads.
MaxRows == 3
\* The largest --context-length given on the command line.
MaxW == 3
\* The largest conversation id of the labels table and of --conversation-id.
MaxConv == 2

---------------------------------------------------------------------------
(* Program constants *)

\* DataLoader(input_ids, batch_size=2, shuffle=False)
batch_size == 2
\* assert len(args.conversation_list) == 54
conversations_625 == 54
\* assert len(args.conversation_list) == 79
conversations_other == 79
\* GPT2 tokenizer.max_len_single_sentence
max_len_single_sentence == 1024
\* add_glove_embeddings(df, dim=50)
glove_dim == 50

None == <<>>
NaNRow == <<"nan">>
NoError == <<>>

EmbeddingTypes == {"gpt2", "glove50", "glove"}
Subjects == {"625", "676"}
\* What the directory os.listdir(args.input_dir) reads may hold.
DirCounts == {0, 53, 54, 55, 79}
\* What torch.cuda.device_count() may return.
GpuCounts == {1, 2}
\* The words of the transcripts.
Words == {"the", "cat", "cats!"}

Min(a, b) == IF a <= b THEN a ELSE b

RECURSIVE Flatten(_)
\* torch.cat(list_of_tensors, dim=0) / np.concatenate(list, axis=0)
Flatten(ss) == IF ss = <<>> THEN <<>> ELSE Head(ss) \o Flatten(Tail(ss))

---------------------------------------------------------------------------
(* The tokenizer and the static vectors (pretrained, external)             *)

\* args.tokenizer.tokenize(word), with add_prefix_space=True
tokenize(word) ==
    CASE word = "the"   -> <<"_the">>
      [] word = "cat"   -> <<"_cat">>
      [] word = "cats!" -> <<"_cat", "s", "!">>
      [] OTHER          -> <<>>

\* tokenizer.convert_tokens_to_ids(token)
convert_tokens_to_ids(token) ==
    CASE token = "_the" -> 1
      [] token = "_cat" -> 2
      [] token = "s"    -> 3
      [] token = "!"    -> 4
      [] OTHER          -> 0

\* tokenizer.convert_tokens_to_string(token).strip()
convert_tokens_to_string(token) ==
    CASE token = "_the" -> "the"
      [] token = "_cat" -> "cat"
      [] OTHER          -> token

\* string.punctuation, as far as the tokens of the model go
punctuation == {"!"}

\* get_vector(x, glove): the vector, or None on a KeyError
get_vector(x) == IF x \in {"the", "cat"} THEN <<"glove", glove_dim, x>> ELSE None

---------------------------------------------------------------------------
(* Windowing engine: window(seq, n), lines 164-173                         *)

\* tuple(islice(it, n)): the first n elements, fewer when the iterable ends
islice(seq, n) == SubSeq(seq, 1, Min(n, Len(seq)))

\* what the iterator still holds after islice(it, n)
rest(seq, n) == SubSeq(seq, Min(n, Len(seq)) + 1, Len(seq))

\* result[1:] of a python tuple (empty for the empty tuple)
drop_first(result) == IF result = <<>> THEN <<>> ELSE Tail(result)

RECURSIVE window_loop(_, _, _)
\* for elem in it: result = result[1:] + (elem, ); yield result
window_loop(result, it, yielded) ==
    IF it = <<>> THEN yielded
    ELSE LET next_result == drop_first(result) \o <<Head(it)>>
         IN window_loop(next_result, Tail(it), Append(yielded, next_result))

\* window with 'if len(result) < n' at line 169: a full first window is lost
window_strict_first(seq, n) ==
    LET result == islice(seq, n)
    IN window_loop(result, rest(seq, n),
                   IF Len(result) < n THEN <<result>> ELSE <<>>)

\* window that goes on past the end of the data, yielding what remains of
\* the last window (the shorter remainder window)
window_with_remainder(seq, n) ==
    LET result == islice(seq, n)
        full == window_loop(result, rest(seq, n), <<result>>)
    IN IF Len(seq) > n THEN Append(full, Tail(full[Len(full)])) ELSE full

\* list(window(seq, n)): every tuple the generator yields, in order
window(seq, n) ==
    LET result == islice(seq, n)
    IN window_loop(result, rest(seq, n),
                   IF Len(result) <= n THEN <<result>> ELSE <<>>)

---------------------------------------------------------------------------
(* Inference runner: DataLoader and model(batch), lines 265-281            *)

\* torch.tensor(windows) needs rows of one length (a ValueError otherwise)
rectangular(ws) == \A i, j \in 1..Len(ws) : Len(ws[i]) = Len(ws[j])

\* the number of mini-batches of the DataLoader
num_batches(ws) == (Len(ws) + batch_size - 1) \div batch_size

\* the batch_num-th mini-batch (batch_num counted from 0), shuffle=False
batch_of(ws, n) ==
    SubSeq(ws, batch_size * n + 1, Min(batch_size * n + batch_size, Len(ws)))

\* model(batch).hidden_states[-1] (kind "h") and model(batch).logits (kind
\* "logit"): shape (batch, length, .), row <<kind, window, position>>
model_output(kind, n, batch) ==
    [b \in 1..Len(batch) |->
        [p \in 1..Len(batch[b]) |-> <<kind, batch_size * n + (b - 1), p - 1>>]]

---------------------------------------------------------------------------
(* Logit/embedding gather: gather_logits, lines 191-202                    *)

\* logits[b, -2, :] exists only when the length dimension holds 2 positions
has_second_to_last(logits) == \A b \in 1..Len(logits) : Len(logits[b]) >= 2

\* logits[0, :-1, :]
all_but_last(logits) == SubSeq(logits[1], 1, Len(logits[1]) - 1)

\* logits[from:, -2, :], from counted from 1
second_to_last(logits, from) ==
    [i \in 1..(Len(logits) - from + 1) |->
        logits[from + i - 1][Len(logits[from + i - 1]) - 1]]

\* whether gather_logits raises IndexError on this batch
gather_logits_raises(n, logits) ==
    IF n = 0 /\ Len(logits) = 1 THEN FALSE ELSE ~has_second_to_last(logits)

\* logits[from:, -1, :]: the last position in place of the second-to-last
last_position(logits, from) ==
    [i \in 1..(Len(logits) - from + 1) |->
        logits[from + i - 1][Len(logits[from + i - 1])]]

\* gather_logits reading index -1 where the code reads -2
gather_logits_last(n, logits) ==
    IF n = 0
    THEN IF Len(logits) = 1
         THEN all_but_last(logits)
         ELSE all_but_last(logits) \o last_position(logits, 2)
    ELSE last_position(logits, 1)

\* the rows gather_logits returns when it does not raise
gather_logits(n, logits) ==
    IF n = 0
    THEN IF Len(logits) = 1
         THEN all_but_last(logits)
         ELSE all_but_last(logits) \o second_to_last(logits, 2)
    ELSE second_to_last(logits, 1)

\* extract_token_embeddings_new, lines 176-188
extract_token_embeddings_new(outputs) == <<NaNRow>> \o Flatten(outputs)

---------------------------------------------------------------------------
(* Prediction scorer: get_correct_prediction_probability, lines 205-241    *)

\* prediction_probabilities.max(dim=1)[0] of one softmax row
top1_probability(row) == <<"max", row[2], row[3]>>

\* convert_tokens_to_string(convert_ids_to_tokens(argmax)) of one row
predicted_word(row) == <<"argmax", row[2], row[3]>>

\* prediction_probabilities.gather(1, true_y) of one row
gathered_probability(row, y) == <<"p", row[2], row[3], y>>

\* torch.cat([sti[0, 1:], sti[1:, -2]]): the later windows' second-to-last id
overlap_true_y_second_to_last(ids) ==
    drop_first(ids[1])
        \o [i \in 1..(Len(ids) - 1) |-> ids[i + 1][Len(ids[i + 1]) - 1]]

\* torch.cat([sti[0, 1:], sti[1:, -1]])
overlap_true_y(ids) ==
    drop_first(ids[1]) \o [i \in 1..(Len(ids) - 1) |-> ids[i + 1][Len(ids[i + 1])]]

\* the ground-truth ids true_y, lines 215-219
true_y_of(scores, ids) ==
    IF Len(scores) = 1 THEN drop_first(ids[1]) ELSE overlap_true_y(ids)

\* the failure of the scorer, NoError when it returns: torch.cat needs a
\* list that holds a batch (line 211); sentence_token_ids[0]
\* needs a window (line 216); torch.tensor needs windows of one length (line
\* 218); sti[0, 1:] needs a window and sti[1:, -1] a last position, also
\* when the slice 1: is empty (line 219); torch.gather needs an index no
\* longer than its input (line 237)
scorer_error(logits, ids) ==
    LET scores == Flatten(logits)
    IN  IF logits = <<>> THEN <<"RuntimeError", 211>>
        ELSE IF Len(scores) = 0 THEN NoError
        ELSE IF Len(scores) = 1
        THEN IF ids = <<>> THEN <<"IndexError", 216>>
             ELSE IF Len(drop_first(ids[1])) > 1 THEN <<"RuntimeError", 237>>
             ELSE NoError
        ELSE IF ~rectangular(ids) THEN <<"ValueError", 218>>
        ELSE IF ids = <<>> \/ Len(ids[1]) = 0 THEN <<"IndexError", 219>>
        ELSE IF Len(overlap_true_y(ids)) > Len(scores) THEN <<"RuntimeError", 237>>
        ELSE NoError

\* whether get_correct_prediction_probability raises
scorer_raises(logits, ids) == scorer_error(logits, ids) # NoError

\* the scorer with the placeholder put first: [None] + ... on lines 233-238
get_correct_prediction_probability_none_first(logits, ids) ==
    LET scores == Flatten(logits)
        true_y == true_y_of(scores, ids)
    IN  IF Len(scores) = 0
        THEN <<<<None>>, <<None>>, <<None>>>>
        ELSE << <<None>> \o [i \in 1..Len(scores) |-> predicted_word(scores[i])],
                <<None>> \o [i \in 1..Len(scores) |-> top1_probability(scores[i])],
                <<None>> \o [i \in 1..Len(true_y) |->
                                gathered_probability(scores[i], true_y[i])] >>

\* the three lists returned: <<top1_words, top1_probabilities, true_y_probability>>
get_correct_prediction_probability(logits, ids) ==
    LET scores == Flatten(logits)
        true_y == true_y_of(scores, ids)
    IN  IF Len(scores) = 0
        THEN <<<<None>>, <<None>>, <<None>>>>
        ELSE << [i \in 1..Len(scores) |-> predicted_word(scores[i])] \o <<None>>,
                [i \in 1..Len(scores) |-> top1_probability(scores[i])] \o <<None>>,
                [i \in 1..Len(true_y) |-> gathered_probability(scores[i], true_y[i])]
                    \o <<None>> >>

---------------------------------------------------------------------------
(* Transcript loader and tokenizer/exploder, lines 34-51 and 84-125        *)

\* the labels tables the pickle may hold: rows [conversation_id, word],
\* the rows of one conversation together, conversations in rising order
LabelTables ==
    UNION { { [i \in 1..n |-> [conversation_id |-> cs[i], word |-> ws[i]]] :
                cs \in { c \in [1..n -> 1..MaxConv] :
                            \A i \in 1..(n - 1) : c[i] <= c[i + 1] },
                ws \in [1..n -> Words] } : n \in 0..MaxRows }

\* df[df.conversation_id == conversation]
of_conversation(table, conversation) ==
    LET keep(row) == row.conversation_id = conversation
    IN SelectSeq(table, keep)

\* the forms datum['labels'] may have, both taken by DataFrame.from_dict:
\* a list of records and a dict of columns
LabelForms == {"records", "columns"}

\* the dtype pandas gives a column built from an empty list: float64
\* before pandas 2, object from pandas 2 on
EmptyColumnDtypes == {"float64", "object"}

\* whether the frame has a column of this name
has_column(cols, name) == \E c \in cols : c[1] = name

\* the dtype of a column the frame has
column_dtype(cols, name) == (CHOOSE c \in cols : c[1] = name)[2]

\* the columns of DataFrame.from_dict(datum['labels']): an empty list of
\* records makes a frame without columns, a dict of empty columns keeps them
\* with the dtype of an empty column
labels_columns(table, form, empty_dtype) ==
    IF table = <<>>
    THEN IF form = "records" THEN {}
         ELSE {<<"conversation_id", empty_dtype>>, <<"word", empty_dtype>>}
    ELSE {<<"conversation_id", "int64">>, <<"word", "object">>}

\* whether load_pickle raises: df.conversation_id of line 49 is an
\* AttributeError on a frame without columns
load_pickle_raises(table, form, conversation_id) ==
    conversation_id # 0
        /\ ~has_column(labels_columns(table, form, "object"), "conversation_id")

\* load_pickle when it returns: the whole table when args.conversation_id
\* is 0 (falsy)
load_pickle(table, conversation_id) ==
    IF conversation_id # 0 THEN of_conversation(table, conversation_id) ELSE table

\* the rows one word explodes to: one per token that is no punctuation mark
explode_word(row) ==
    LET tokens == tokenize(row.word)
        keep(token) == token \notin punctuation
        kept == SelectSeq(tokens, keep)
    IN [i \in 1..Len(kept) |->
          [conversation_id |-> row.conversation_id,
           word |-> row.word,
           glove50_embeddings |-> get_vector(row.word),
           token |-> kept[i],
           token_id |-> convert_tokens_to_ids(kept[i]),
           gpt2_token_is_root |-> (row.word = convert_tokens_to_string(kept[i]))]]

RECURSIVE tokenize_and_explode(_)
\* tokenize_and_explode(args, df) for embedding_type gpt2
tokenize_and_explode(table) ==
    IF table = <<>> THEN <<>>
    ELSE explode_word(Head(table)) \o tokenize_and_explode(Tail(table))

RECURSIVE unique(_, _)
\* df.conversation_id.unique(): in order of first appearance
unique(table, seen) ==
    IF table = <<>> THEN <<>>
    ELSE IF Head(table).conversation_id \in seen
         THEN unique(Tail(table), seen)
         ELSE <<Head(table).conversation_id>>
              \o unique(Tail(table), seen \cup {Head(table).conversation_id})

\* df[df.conversation_id == conversation]['token_id'].tolist()
token_ids(table, conversation) ==
    LET rows == of_conversation(table, conversation)
    IN [i \in 1..Len(rows) |-> rows[i].token_id]

\* what a column of floats holds in place of None
NaN == <<"NaN">>

\* whether a list assigned as a column holds a float: the column is then of
\* dtype float64, and of dtype object when it holds nothing but None
holds_float(values) == \E i \in 1..Len(values) : values[i] # None

\* the dtype of a column assigned from a list of floats and None, lines
\* 296-297
float_column_dtype(values) == IF holds_float(values) THEN "float64" ELSE "object"

\* the values of that column: a float64 column holds NaN where the list
\* holds None
float_column(values) ==
    IF holds_float(values)
    THEN [i \in 1..Len(values) |-> IF values[i] = None THEN NaN ELSE values[i]]
    ELSE values

\* the dtype of Series.apply on a column: an empty column keeps its dtype
applied_dtype(table, cols, name, dtype) ==
    IF table = <<>> THEN column_dtype(cols, name) ELSE dtype

\* lines 294-297: the four new columns, assigned by position
with_columns(table, embeddings, top1_word, top1_prob, true_y_prob) ==
    [i \in 1..Len(table) |->
        [conversation_id |-> table[i].conversation_id,
         word |-> table[i].word,
         glove50_embeddings |-> table[i].glove50_embeddings,
         token |-> table[i].token,
         token_id |-> table[i].token_id,
         gpt2_token_is_root |-> table[i].gpt2_token_is_root,
         embeddings |-> embeddings[i],
         top1_pred |-> top1_word[i],
         top1_pred_prob |-> float_column(top1_prob)[i],
         true_pred_prob |-> float_column(true_y_prob)[i]]]

\* gen_word2vec_embeddings, line 353
with_word2vec(table) ==
    [i \in 1..Len(table) |->
        [conversation_id |-> table[i].conversation_id,
         word |-> table[i].word,
         embeddings |-> get_vector(table[i].word)]]

---------------------------------------------------------------------------
(* The run of main(), lines 454-472                                        *)

\* parse_arguments, lines 434-451; nothing is loaded or set yet
Init ==
    /\ pc = "select_tokenizer_and_model"
    /\ args \in [embedding_type : EmbeddingTypes,
                 context_length : 0..MaxW,
                 subject : Subjects,
                 history : BOOLEAN,
                 conversation_id : 0..MaxConv,
                 model : {"unset"},
                 tokenizer : {"unset"},
                 conversation_list : {-1},
                 gpus : {-1},
                 output_file : {<<>>}]
    /\ directory \in DirCounts
    /\ error = NoError
    /\ df = <<>>
    /\ columns = {}
    /\ pending = <<>>
    /\ token_list = <<>>
    /\ windows = <<>>
    /\ batch_num = 0
    /\ concat_output = <<>>
    /\ concat_logits = <<>>
    /\ final_embeddings = <<>>
    /\ final_top1_word = <<>>
    /\ final_top1_prob = <<>>
    /\ final_true_y_prob = <<>>
    /\ output = <<>>

\* an uncaught exception (or exit) at a line ends the run
raise(exception, line) ==
    /\ pc' = "aborted"
    /\ error' = <<exception, line>>

\* the context length select_tokenizer_and_model leaves in args, lines 426-429
selected_context_length(a) ==
    IF a.history /\ a.context_length <= 0
    THEN max_len_single_sentence ELSE a.context_length

\* select_tokenizer_and_model with no model for the type: exit(1), lines 412-414
SelectExit ==
    /\ pc = "select_tokenizer_and_model"
    /\ args.embedding_type \notin {"gpt2", "roberta", "bert", "bart", "glove50"}
    /\ raise("SystemExit", 414)
    /\ UNCHANGED <<args, df, columns, conv, finals, output, directory>>

\* select_tokenizer_and_model, lines 392-431
SelectTokenizerAndModel ==
    /\ pc = "select_tokenizer_and_model"
    /\ args.embedding_type \in {"gpt2", "roberta", "bert", "bart", "glove50"}
    /\ args' = IF args.embedding_type = "glove50" THEN args
               ELSE [args EXCEPT !.model = "loaded", !.tokenizer = "loaded",
                                 !.context_length = selected_context_length(args)]
    /\ pc' = "setup_environ"
    /\ UNCHANGED <<error, df, columns, conv, finals, output, directory>>

\* the assertion with one count for every subject
expected_conversations_one_count(subject) == conversations_other

\* the count setup_environ asserts for the subject, lines 371-374
expected_conversations(subject) ==
    IF subject = "625" THEN conversations_625 ELSE conversations_other

\* args.output_file (lines 380-387): the results directory of the subject and
\* of '<type>_cnxt_<length>', and the name of the chosen conversation
output_file_of(a) ==
    <<a.subject, a.embedding_type, "cnxt", a.context_length,
      "conversation", a.conversation_id - 1>>

\* setup_environ stopped by its assertion on the directory, lines 369-374
SetupEnvironAbort ==
    /\ pc = "setup_environ"
    /\ LET entries == directory IN
          /\ entries # expected_conversations(args.subject)
          /\ args' = [args EXCEPT !.conversation_list = entries]
          /\ raise("AssertionError", IF args.subject = "625" THEN 372 ELSE 374)
    /\ UNCHANGED <<df, columns, conv, finals, output, directory>>

\* setup_environ with several GPUs and no args.model to wrap, line 378
SetupEnvironNoModel ==
    /\ pc = "setup_environ"
    /\ args.model = "unset"
    /\ \E entries \in {directory}, gpus \in GpuCounts :
          /\ entries = expected_conversations(args.subject)
          /\ gpus > 1
          /\ args' = [args EXCEPT !.conversation_list = entries, !.gpus = gpus]
          /\ raise("AttributeError", 378)
    /\ UNCHANGED <<df, columns, conv, finals, output, directory>>

\* setup_environ, lines 358-389
SetupEnviron ==
    /\ pc = "setup_environ"
    /\ \E entries \in {directory}, gpus \in GpuCounts :
          /\ entries = expected_conversations(args.subject)
          /\ gpus > 1 => args.model # "unset"
          /\ args' = [args EXCEPT
                        !.conversation_list = entries,
                        !.gpus = gpus,
                        !.model = IF gpus > 1 THEN "DataParallel" ELSE @,
                        !.output_file = IF args.conversation_id # 0
                                        THEN output_file_of(args) ELSE @]
    /\ pc' = "load_pickle"
    /\ UNCHANGED <<error, df, columns, conv, finals, output, directory>>

\* load_pickle, lines 34-51, and the branch main takes next, lines 460-470
LoadPickle ==
    /\ pc = "load_pickle"
    /\ UNCHANGED directory
    /\ \E table \in LabelTables, form \in LabelForms,
          empty_dtype \in EmptyColumnDtypes :
          IF load_pickle_raises(table, form, args.conversation_id)
          THEN raise("AttributeError", 49) /\ UNCHANGED <<df, columns>>
          ELSE /\ df' = load_pickle(table, args.conversation_id)
               /\ columns' = labels_columns(table, form, empty_dtype)
               /\ pc' = IF args.history
                        THEN IF args.embedding_type = "gpt2"
                             THEN "generate_embeddings_with_context" ELSE "todo"
                        ELSE IF args.embedding_type = "glove50"
                             THEN "gen_word2vec_embeddings"
                             ELSE "generate_embeddings"
               /\ UNCHANGED error
    /\ UNCHANGED <<args, conv, finals, output>>

\* main, lines 463-465: history asked of a model other than gpt2
PrintTodo ==
    /\ pc = "todo"
    /\ pc' = "done"
    /\ UNCHANGED <<args, error, df, columns, conv, finals, output, directory>>

\* gen_word2vec_embeddings, lines 351-355
GenWord2vecEmbeddings ==
    /\ pc = "gen_word2vec_embeddings"
    /\ UNCHANGED directory
    /\ IF ~has_column(columns, "word")
       THEN raise("KeyError", 353) /\ UNCHANGED <<df, columns, output>>
       ELSE /\ df' = with_word2vec(df)
            /\ columns' = columns \cup
                  {<<"embeddings", applied_dtype(df, columns, "word", "object")>>}
            /\ IF args.output_file = <<>>
               THEN raise("AttributeError", 354) /\ UNCHANGED output
               ELSE /\ pc' = "done"
                    /\ output' = <<args.output_file, df'>>
                    /\ UNCHANGED error
    /\ UNCHANGED <<args, conv, finals>>

\* generate_embeddings, lines 304-312: tokenize_and_explode takes two
\* arguments and is given three
GenerateEmbeddings ==
    /\ pc = "generate_embeddings"
    /\ UNCHANGED directory
    /\ raise("TypeError", 312)
    /\ UNCHANGED <<args, df, columns, conv, finals, output>>

---------------------------------------------------------------------------
(* generate_embeddings_with_context, lines 244-301                         *)

\* lines 245-257: the table is exploded to tokens, the final lists are empty.
\* df['word'] of line 76 is a KeyError on a frame without columns; the token
\* column made from an empty word column that is not of dtype object has
\* that dtype too, and its .str of lines 86-87 is an AttributeError, raised
\* after lines 76 and 118 have added their columns to the labels frame; the
\* token_id column applied from an empty token column keeps its dtype
TokenizeAndExplode ==
    /\ pc = "generate_embeddings_with_context"
    /\ UNCHANGED directory
    /\ IF ~has_column(columns, "word")
       THEN raise("KeyError", 76) /\ UNCHANGED <<df, columns, pending>>
       ELSE IF column_dtype(columns, "word") # "object"
       THEN /\ raise("AttributeError", 87)
            /\ columns' = columns \cup
                  {<<"glove50_embeddings", column_dtype(columns, "word")>>,
                   <<"token", column_dtype(columns, "word")>>}
            /\ UNCHANGED <<df, pending>>
       ELSE /\ df' = tokenize_and_explode(df)
            /\ columns' = columns \cup
                  {<<"glove50_embeddings", "object">>,
                   <<"token", "object">>,
                   <<"token_id", IF df' = <<>> THEN "object" ELSE "int64">>,
                   <<"gpt2_token_is_root", "bool">>}
            /\ pending' = unique(df', {})
            /\ pc' = "conversation_loop"
            /\ UNCHANGED error
    /\ final_embeddings' = <<>>
    /\ final_top1_word' = <<>>
    /\ final_top1_prob' = <<>>
    /\ final_true_y_prob' = <<>>
    /\ UNCHANGED <<args, token_list, windows, batch_num,
                   concat_output, concat_logits, output>>

\* lines 258-273: the next conversation's tokens and windows
NextConversation ==
    /\ pc = "conversation_loop"
    /\ UNCHANGED directory
    /\ pending # <<>>
    /\ pending' = Tail(pending)
    /\ token_list' = token_ids(df, Head(pending))
    /\ windows' = window(token_list', args.context_length)
    /\ batch_num' = 0
    /\ concat_output' = <<>>
    /\ concat_logits' = <<>>
    /\ IF rectangular(windows')
       THEN pc' = "batch_loop" /\ UNCHANGED error
       ELSE raise("ValueError", 265)
    /\ UNCHANGED <<args, df, columns, finals, output>>

\* lines 274-281: one mini-batch through the model and through gather_logits
ProcessBatch ==
    /\ pc = "batch_loop"
    /\ UNCHANGED directory
    /\ batch_num < num_batches(windows)
    /\ LET batch == batch_of(windows, batch_num)
           hidden == model_output("h", batch_num, batch)
           logits == model_output("logit", batch_num, batch)
       IN IF gather_logits_raises(batch_num, hidden)
          THEN /\ raise("IndexError", IF batch_num = 0 THEN 197 ELSE 200)
               /\ UNCHANGED <<batch_num, concat_output, concat_logits>>
          ELSE /\ concat_output' =
                      Append(concat_output, gather_logits(batch_num, hidden))
               /\ concat_logits' =
                      Append(concat_logits, gather_logits(batch_num, logits))
               /\ batch_num' = batch_num + 1
               /\ UNCHANGED <<pc, error>>
    /\ UNCHANGED <<args, df, columns, pending, token_list, windows, finals, output>>

\* lines 283-291: the conversation's embeddings (torch.cat raises on an empty
\* list of batches), the assertion, the scores
FinishConversation ==
    /\ pc = "batch_loop"
    /\ UNCHANGED directory
    /\ batch_num = num_batches(windows)
    /\ LET extracted_embeddings == extract_token_embeddings_new(concat_output)
           scored == get_correct_prediction_probability(concat_logits, windows)
       IN IF concat_output = <<>>
          THEN raise("RuntimeError", 179) /\ UNCHANGED finals
          ELSE IF Len(extracted_embeddings) # Len(token_list)
          THEN raise("AssertionError", 284) /\ UNCHANGED finals
          ELSE IF scorer_raises(concat_logits, windows)
          THEN /\ pc' = "aborted"
               /\ error' = scorer_error(concat_logits, windows)
               /\ final_embeddings' = Append(final_embeddings, extracted_embeddings)
               /\ UNCHANGED <<final_top1_word, final_top1_prob, final_true_y_prob>>
          ELSE /\ final_embeddings' = Append(final_embeddings, extracted_embeddings)
               /\ final_top1_word' = final_top1_word \o scored[1]
               /\ final_top1_prob' = final_top1_prob \o scored[2]
               /\ final_true_y_prob' = final_true_y_prob \o scored[3]
               /\ pc' = "conversation_loop"
               /\ UNCHANGED error
    /\ UNCHANGED <<args, df, columns, conv, output>>

\* lines 293-301: the four columns and save_pickle
WriteTable ==
    /\ pc = "conversation_loop"
    /\ UNCHANGED directory
    /\ pending = <<>>
    /\ LET embeddings == Flatten(final_embeddings)
       IN IF \/ final_embeddings = <<>>
             \/ Len(embeddings) # Len(df)
             \/ Len(final_top1_word) # Len(df)
             \/ Len(final_top1_prob) # Len(df)
             \/ Len(final_true_y_prob) # Len(df)
          THEN raise("ValueError", 294) /\ UNCHANGED <<df, columns, output>>
          ELSE /\ columns' = columns \cup {<<"embeddings", "object">>,
                                             <<"top1_pred", "object">>,
                                             <<"top1_pred_prob",
                                               float_column_dtype(final_top1_prob)>>,
                                             <<"true_pred_prob",
                                               float_column_dtype(final_true_y_prob)>>}
               /\ df' = with_columns(df, embeddings, final_top1_word,
                                     final_top1_prob, final_true_y_prob)
               /\ IF args.output_file = <<>>
                  THEN raise("AttributeError", 299) /\ UNCHANGED output
                  ELSE /\ pc' = "done"
                       /\ output' = <<args.output_file, df'>>
                       /\ UNCHANGED error
    /\ UNCHANGED <<args, conv, finals>>

Next ==
    \/ SelectExit
    \/ SelectTokenizerAndModel
    \/ SetupEnvironAbort
    \/ SetupEnvironNoModel
    \/ SetupEnviron
    \/ LoadPickle
    \/ PrintTodo
    \/ GenWord2vecEmbeddings
    \/ GenerateEmbeddings
    \/ TokenizeAndExplode
    \/ NextConversation
    \/ ProcessBatch
    \/ FinishConversation
    \/ WriteTable

Spec == Init /\ [][Next]_vars

---------------------------------------------------------------------------
(* Properties                                                              *)

\* the run is inside generate_embeddings_with_context
InContext == args.embedding_type = "gpt2" /\ args.history

\* the batches of the conversation are all gathered: control is at line 283
AtLine283 == pc = "batch_loop" /\ batch_num = num_batches(windows)

\* the per-token table is built and pickled (lines 294-299)
TableBuilt == InContext /\ pc = "done" /\ output = <<args.output_file, df>>

\* the number of tokens of the conversation at hand, and the context length
N == Len(token_list)
W == args.context_length

\* C1 (as claimed): for every conversation of N >= 1 tokens and every context
\* length W >= 1 the batches are gathered without a failure, control reaches
\* the assertion of line 284, and there the embedding rows (the NaN row and
\* the gathered rows) number N.
C1_EveryConversationReachesAssertion ==
    /\ ~(pc = "aborted" /\ error \in {<<"IndexError", 197>>, <<"IndexError", 200>>,
                                      <<"AssertionError", 284>>})
    /\ AtLine283 => Len(extract_token_embeddings_new(concat_output)) = N

\* the missing-value placeholder of the table: None in a column of dtype
\* object, NaN in a column of dtype float64
Placeholder == {None, NaN}

\* C2 (as claimed): with W >= 2, the first row of the per-token table holds
\* the placeholder in top1_pred, top1_pred_prob and true_pred_prob.
C2_FirstTokenPlaceholder ==
    (TableBuilt /\ W >= 2) =>
        /\ df[1].top1_pred \in Placeholder
        /\ df[1].top1_pred_prob \in Placeholder
        /\ df[1].true_pred_prob \in Placeholder

\* the table of the end-to-end example: the words "the", "cat" of one
\* conversation, context length 2
TheCatExample ==
    /\ TableBuilt
    /\ W = 2
    /\ Len(df) = 2
    /\ df[1].word = "the" /\ df[2].word = "cat"
    /\ df[1].conversation_id = df[2].conversation_id

\* C3 (as claimed): in the end-to-end example there is one window holding
\* both token ids, the table has 2 rows, row 1 has the placeholder as
\* true_pred_prob and row 2 a real probability.
C3_TheCatExample ==
    TheCatExample =>
        /\ windows = << <<df[1].token_id, df[2].token_id>> >>
        /\ df[1].true_pred_prob \in Placeholder
        /\ df[2].true_pred_prob \notin Placeholder

\* C4: for every conversation of N >= 1 tokens, each of the three lists
\* get_correct_prediction_probability returns has N entries and ends with
\* the placeholder; with no gathered logit row (N = 1) they hold the
\* placeholder alone.
C4_ScorerLists ==
    AtLine283 =>
        LET scored == get_correct_prediction_probability(concat_logits, windows)
        IN  /\ \A j \in 1..3 : Len(scored[j]) = N /\ scored[j][N] = None
            /\ Flatten(concat_logits) = <<>> =>
                   N = 1 /\ scored = <<<<None>>, <<None>>, <<None>>>>

\* C4 witness: a conversation of several batches whose lists end with the
\* placeholder after real entries
C4_Witness ==
    /\ AtLine283 /\ batch_num >= 2
    /\ LET scored == get_correct_prediction_probability(concat_logits, windows)
       IN  Len(scored[3]) = N /\ scored[3][N] = None /\ scored[3][N - 1] # None

\* C5: for N >= W >= 1, window(seq, W) yields N - W + 1 windows; window k
\* (from 0) is the slice seq[k .. k+W-1], so the first is the first W
\* elements and each later one is its predecessor without its oldest
\* element and with the next element of the sequence appended.
C5_WindowSlices ==
    (N >= 1 /\ N >= W /\ W >= 1) =>
        /\ Len(windows) = (N - W) + 1
        /\ windows[1] = SubSeq(token_list, 1, W)
        /\ \A k \in 0..(N - W) : windows[k + 1] = SubSeq(token_list, k + 1, k + W)
        /\ \A k \in 1..(N - W) :
               windows[k + 1] = Tail(windows[k]) \o <<token_list[k + W]>>

\* C5 witness: a sequence longer than the window, slid over to its end
C5_Witness ==
    /\ pc = "batch_loop" /\ W = 2 /\ N = 5
    /\ Len(windows) = 4
    /\ windows[4] = SubSeq(token_list, 4, 5)

\* C6 (as claimed): for N > W the last window yielded is shorter than W.
C6_ShorterLastWindow ==
    (N > W /\ W >= 1) =>
        Len(windows[Len(windows)]) < W

\* C6 (amended): for N > W every window yielded, the last included, has
\* exactly W elements; the last is the last W elements of the sequence and
\* no shorter remainder window follows it.
C6_NoRemainderWindow ==
    (N > W /\ W >= 1) =>
        /\ windows # <<>>
        /\ \A k \in 1..Len(windows) : Len(windows[k]) = W
        /\ windows[Len(windows)] = SubSeq(token_list, N - W + 1, N)

\* C6 witness: N > W and the last window is full
C6_Witness ==
    /\ pc = "batch_loop" /\ W = 3 /\ N = 4
    /\ Len(windows[Len(windows)]) = 3

\* the directory holds another number of entries than the subject's
DirectoryMismatch ==
    \/ args.subject = "625" /\ directory # conversations_625
    \/ args.subject # "625" /\ directory # conversations_other

\* nothing is loaded from the labels file, no batch has gone through the
\* model and nothing is written
NothingLoadedRunOrWritten ==
    /\ pc \notin {"load_pickle", "generate_embeddings_with_context", "todo",
                  "gen_word2vec_embeddings", "generate_embeddings",
                  "conversation_loop", "batch_loop", "done"}
    /\ df = <<>> /\ columns = {} /\ pending = <<>> /\ windows = <<>>
    /\ concat_output = <<>> /\ concat_logits = <<>>
    /\ final_embeddings = <<>> /\ final_true_y_prob = <<>>
    /\ output = <<>>

\* C7 (as claimed): in every run of main whose directory holds another
\* number of entries than 54 (subject "625") or 79 (any other), the run
\* aborts in setup_environ: once it has stopped, it was stopped by the
\* assertion of line 372 or 374, with no labels loaded, no batch run and
\* nothing written.
C7_AbortsInSetupEnviron ==
    DirectoryMismatch =>
        /\ NothingLoadedRunOrWritten
        /\ pc = "aborted" =>
              error \in {<<"AssertionError", 372>>, <<"AssertionError", 374>>}

\* C7 (amended): in every run of main whose directory holds another number
\* of entries than 54 (subject "625") or 79 (any other), the run aborts
\* before the labels are loaded, before any batch goes through the model and
\* before anything is written: by the assertion of setup_environ (line 372,
\* 374) when the embedding type has a model or is glove50, and already in
\* select_tokenizer_and_model, by exit(1) of line 414, when it has none.
C7_MismatchAborts ==
    DirectoryMismatch =>
        /\ NothingLoadedRunOrWritten
        /\ pc \in {"select_tokenizer_and_model", "setup_environ", "aborted"}
        /\ pc = "aborted" =>
              IF args.embedding_type \in {"gpt2", "roberta", "bert", "bart",
                                          "glove50"}
              THEN /\ error = <<"AssertionError",
                               IF args.subject = "625" THEN 372 ELSE 374>>
                   /\ args.conversation_list = directory
              ELSE /\ error = <<"SystemExit", 414>>
                   /\ args.conversation_list = -1

\* C7 witness: subject "625" with 79 entries, stopped at line 372
C7_Witness ==
    /\ args.subject = "625" /\ args.conversation_list = conversations_other
    /\ pc = "aborted" /\ error = <<"AssertionError", 372>>

\* the row gathered for token i (from 0) of a conversation whose windows
\* have length len: position i of window 0, then the second-to-last
\* position of window i - (len - 2)
row_of_token(kind, i, len) ==
    IF i <= len - 2 THEN <<kind, 0, i>> ELSE <<kind, i - (len - 2), len - 2>>

\* C8: for N >= 2 and W >= 2, the rows gathered over all batches are N - 1
\* rows, row i the model output at the position of token i (0 <= i <= N-2),
\* in sequence order, none twice and none skipped; the embeddings are the
\* NaN row followed by these rows.
C8_GatheredRows ==
    (AtLine283 /\ N >= 2 /\ W >= 2) =>
        LET gathered == Flatten(concat_output)
            scores == Flatten(concat_logits)
            extracted == extract_token_embeddings_new(concat_output)
            len == Min(W, N)
        IN  /\ Len(gathered) = N - 1
            /\ Len(scores) = N - 1
            /\ \A i \in 0..(N - 2) :
                  /\ gathered[i + 1] = row_of_token("h", i, len)
                  /\ gathered[i + 1][2] + gathered[i + 1][3] = i
                  /\ scores[i + 1] = row_of_token("logit", i, len)
            /\ Len(extracted) = N
            /\ extracted[1] = NaNRow
            /\ \A j \in 1..(N - 1) : extracted[j + 1] = gathered[j]

\* C8 witness: windows over three batches, the last row from the last window
C8_Witness ==
    /\ AtLine283 /\ W = 2 /\ N = 6 /\ batch_num = 3
    /\ Flatten(concat_output)[5] = <<"h", 4, 0>>

\* C9: for N >= 2 and W >= 2, true_y has as many entries as there are
\* gathered logit rows, N - 1, and entry i is the id of token i+1, while
\* logit row i is the output at the position of token i; so each row is
\* scored against the token observed next.
C9_TrueY ==
    (AtLine283 /\ N >= 2 /\ W >= 2) =>
        LET scores == Flatten(concat_logits)
            true_y == true_y_of(scores, windows)
            scored == get_correct_prediction_probability(concat_logits, windows)
        IN  /\ Len(true_y) = Len(scores)
            /\ Len(true_y) = N - 1
            /\ \A i \in 1..(N - 1) :
                  /\ true_y[i] = token_list[i + 1]
                  /\ scores[i][2] + scores[i][3] = i - 1
                  /\ scored[3][i] =
                         <<"p", scores[i][2], scores[i][3], token_list[i + 1]>>

\* C9 witness: a single window of N >= 3 tokens (the multi-row branch)
C9_Witness ==
    /\ AtLine283 /\ N >= 3 /\ W >= N /\ Len(windows) = 1
    /\ true_y_of(Flatten(concat_logits), windows) = Tail(token_list)

\* C10 (as claimed): for every conversation filter, none included,
\* args.output_file is set when save_pickle is reached, so a run that has
\* processed its conversations writes the output file.
C10_OutputFileSet ==
    /\ ~(pc = "aborted" /\ error = <<"AttributeError", 299>>)
    /\ (pc = "conversation_loop" /\ pending = <<>> /\ final_embeddings # <<>>)
           => args.output_file # <<>>

=============================================================================
